---- MODULE Spec2Model ----
(***************************************************************************)
(* Model of src/shmmgr.c: a buddy allocator on one System V shared memory  *)
(* segment.  The segment is modelled byte-offset exact on an LP64 build:   *)
(* offset_t is a 64 bit unsigned integer, shmlist_t is {next, prev},       *)
(* shmchunk_t is {mclass, active, pad, list} with list at displacement 8,  *)
(* shmhead_t is {shmid, segment_size, free_list[32], num_active[32],       *)
(* num_free[32], lock} of 824 bytes with free_list at displacement 16.     *)
(* Addresses are integers, NULL is 0, and every link stored in the segment *)
(* is an offset that the list routines translate on each use.              *)
(* assert() is compiled in (nothing in the source defines NDEBUG): a       *)
(* failed assertion aborts the calling process where it stands.            *)
(* Callers are those of the test driver main(): they allocate and free     *)
(* and leave the payload bytes as shmmgr_alloc returned them.              *)
(***************************************************************************)
EXTENDS Integers, Sequences, FiniteSets, TLC

(* ----------------------------- constants ------------------------------- *)

SHMCLASS_MIN_BITS == 6

SHMCLASS_MAX_BITS == 31

SHMCLASS_MIN_SIZE == 2 ^ SHMCLASS_MIN_BITS

\* sizeof(shmhead_t): 4 + 4 (pad) + 8 + 32*16 + 32*4 + 32*4 + 40
SizeofShmhead == 824

\* offsetof(shmhead_t, free_list) and sizeof(shmlist_t)
FreeListBase == 16

SizeofShmlist == 16

\* offset_of(shmchunk_t, list) and sizeof(shmchunk_t)
ListDisp == 8

SizeofShmchunk == 24

Classes == 0 .. SHMCLASS_MAX_BITS

NULL == 0

(* ------------------------------- bounds -------------------------------- *)

\* the processes that have the segment mapped
Procs == {1, 2}

\* allocations outstanding or in progress at any one time
MaxHeld == 2

\* calls of shmmgr_alloc and shmmgr_free issued in one run
MaxCalls == 6

\* sizes handed to shmget (the size argument of shmmgr_init)
SegSizes == {4096, 2216}

\* addresses shmat may map the segment at
ShmatAddrs == {1048576}

(* ------------------- 64 bit unsigned integers -------------------------- *)
(* A uint64_t is four 16 bit limbs, least significant first, so that sums  *)
(* and differences wrap modulo 2^64 as size_t and offset_t do.             *)

Limb == 2 ^ 16

U64(n) == <<n % Limb, (n \div Limb) % Limb, 0, 0>>

U64Max == <<Limb - 1, Limb - 1, Limb - 1, Limb - 1>>

U64IsZero(a) == a = <<0, 0, 0, 0>>

\* a + b modulo 2^64
U64Add(a, b) ==
    LET s1 == a[1] + b[1]
        s2 == a[2] + b[2] + (s1 \div Limb)
        s3 == a[3] + b[3] + (s2 \div Limb)
        s4 == a[4] + b[4] + (s3 \div Limb)
    IN  <<s1 % Limb, s2 % Limb, s3 % Limb, s4 % Limb>>

\* a - b modulo 2^64
U64Sub(a, b) ==
    LET d1 == a[1] - b[1]
        w1 == IF d1 < 0 THEN 1 ELSE 0
        d2 == a[2] - b[2] - w1
        w2 == IF d2 < 0 THEN 1 ELSE 0
        d3 == a[3] - b[3] - w2
        w3 == IF d3 < 0 THEN 1 ELSE 0
        d4 == a[4] - b[4] - w3
    IN  <<d1 % Limb, d2 % Limb, d3 % Limb, d4 % Limb>>

\* a < b as unsigned numbers
U64Less(a, b) ==
    \/ a[4] < b[4]
    \/ a[4] = b[4] /\ a[3] < b[3]
    \/ a[4] = b[4] /\ a[3] = b[3] /\ a[2] < b[2]
    \/ a[4] = b[4] /\ a[3] = b[3] /\ a[2] = b[2] /\ a[1] < b[1]

\* value >> 16 and value >> 32
U64Shr16(a) == <<a[2], a[3], a[4], 0>>

U64Shr32(a) == <<a[3], a[4], 0, 0>>

(* ----------------------------- bit scans ------------------------------- *)

\* last (biggest) bit of the value, counted from 1; 0 for 0
fls64(value) ==
    IF U64IsZero(value) THEN 0
    ELSE
    LET hi32 == value[3] # 0 \/ value[4] # 0          \* value & 0xffffffff00000000
        v1   == IF hi32 THEN U64Shr32(value) ELSE value
        r1   == IF hi32 THEN 1 + 32 ELSE 1
        hi16 == v1[2] # 0                              \* value & 0xffff0000
        v2   == IF hi16 THEN U64Shr16(v1) ELSE v1
        r2   == IF hi16 THEN r1 + 16 ELSE r1
        w2   == v2[1]
        hi8  == (w2 \div 256) % 256 # 0                \* value & 0xff00
        w3   == IF hi8 THEN w2 \div 256 ELSE w2
        r3   == IF hi8 THEN r2 + 8 ELSE r2
        hi4  == (w3 \div 16) % 16 # 0                  \* value & 0xf0
        w4   == IF hi4 THEN w3 \div 16 ELSE w3
        r4   == IF hi4 THEN r3 + 4 ELSE r3
        hi2  == (w4 \div 4) % 4 # 0                    \* value & 0xc
        w5   == IF hi2 THEN w4 \div 4 ELSE w4
        r5   == IF hi2 THEN r4 + 2 ELSE r4
        hi1  == (w5 \div 2) % 2 # 0                    \* value & 0x2
    IN  IF hi1 THEN r5 + 1 ELSE r5

\* first (smallest) bit of the value, counted from 1; 0 for 0
ffs64(value) ==
    IF U64IsZero(value) THEN 0
    ELSE
    LET lo32 == value[1] = 0 /\ value[2] = 0           \* !(value & 0xffffffff)
        v1   == IF lo32 THEN U64Shr32(value) ELSE value
        r1   == IF lo32 THEN 1 + 32 ELSE 1
        lo16 == v1[1] = 0                              \* !(value & 0x0000ffff)
        v2   == IF lo16 THEN U64Shr16(v1) ELSE v1
        r2   == IF lo16 THEN r1 + 16 ELSE r1
        w2   == v2[1]
        lo8  == w2 % 256 = 0                           \* !(value & 0x000000ff)
        w3   == IF lo8 THEN w2 \div 256 ELSE w2
        r3   == IF lo8 THEN r2 + 8 ELSE r2
        lo4  == w3 % 16 = 0                            \* !(value & 0x0000000f)
        w4   == IF lo4 THEN w3 \div 16 ELSE w3
        r4   == IF lo4 THEN r3 + 4 ELSE r3
        lo2  == w4 % 4 = 0                             \* !(value & 0x00000003)
        w5   == IF lo2 THEN w4 \div 4 ELSE w4
        r5   == IF lo2 THEN r4 + 2 ELSE r4
        lo1  == w5 % 2 = 0                             \* !(value & 0x00000001)
    IN  IF lo1 THEN r5 + 1 ELSE r5

(* ------------------------------- state --------------------------------- *)

VARIABLES
    shmhead,        \* static shmhead_t *shmhead: where the segment is mapped
    init_pc,        \* shmmgr_init: "start", "returned", or how it broke off
    init_ret,       \* what shmmgr_init returned, once init_pc is "returned"
    segment_size,   \* shmhead->segment_size
    free_list,      \* shmhead->free_list[mclass]: the sentinels {next, prev}
    num_active,     \* shmhead->num_active[mclass]
    num_free,       \* shmhead->num_free[mclass]
    lock,           \* shmhead->lock: [init, pshared, owner]
    chunks,         \* the body of the segment: offset -> shmchunk_t, for the
                    \* offsets written so far (the rest is as shmget left it)
    trail,          \* main(): the calls it has made so far, with what they returned
    pc,             \* where each process stands
    frame,          \* each process's call: op, size, mclass, ptr, the value returned,
                    \* and how often it locked and unlocked the mutex
    held,           \* the addresses each process got from shmmgr_alloc and has not freed
    carved,         \* bytes the seeding loop of shmmgr_init turned into chunks
    calls           \* calls of shmmgr_alloc and shmmgr_free issued so far

vars == <<shmhead, init_pc, init_ret, segment_size, free_list, num_active, num_free,
          lock, chunks, pc, frame, held, carved, calls, trail>>

(* --------------------------- shared memory ----------------------------- *)
(* The routines below work on a record mem = [free_list, num_active,       *)
(* num_free, chunks, status] and return the memory they leave behind.      *)
(* status is "ok", "abort" (an assertion failed) or "fault" (an access     *)
(* outside the objects of the segment).                                    *)

ZeroChunk == [mclass |-> 0, active |-> FALSE, list |-> [next |-> 0, prev |-> 0]]

Mem == [free_list |-> free_list, num_active |-> num_active, num_free |-> num_free,
        chunks |-> chunks, status |-> "ok"]

Fault(mem) == IF mem.status = "ok" THEN [mem EXCEPT !.status = "fault"] ELSE mem

Abort(mem) == IF mem.status = "ok" THEN [mem EXCEPT !.status = "abort"] ELSE mem

\* addr_to_offset - translation from an address to offset
addr_to_offset(addr) ==
    IF addr = NULL THEN 0 ELSE addr - shmhead

\* a translation that forgets that offset 0 stands for NULL
offset_to_addr_NoNull(offset) == shmhead + offset

\* offset_to_addr - translation from an offset to address
offset_to_addr(offset) ==
    IF offset = 0 THEN NULL ELSE shmhead + offset

\* &shmhead->free_list[mclass]
FreeListAddr(mclass) == shmhead + FreeListBase + mclass * SizeofShmlist

\* &chunk->list, and container_of(ptr, shmchunk_t, list)
ListOf(chunk) == chunk + ListDisp

ContainerOf(ptr) == ptr - ListDisp

\* a shmchunk_t at this address lies wholly inside the segment
ChunkInSegment(chunk) ==
    /\ (chunk - shmhead) % SHMCLASS_MIN_SIZE = 0
    /\ (chunk - shmhead) >= SizeofShmhead
    /\ (chunk - shmhead) + SizeofShmchunk <= segment_size

IsSentinel(list) ==
    /\ list >= FreeListAddr(0)
    /\ list <= FreeListAddr(SHMCLASS_MAX_BITS)
    /\ (list - FreeListAddr(0)) % SizeofShmlist = 0

SentinelClass(list) == (list - shmhead - FreeListBase) \div SizeofShmlist

IsChunkList(list) == ChunkInSegment(ContainerOf(list))

\* the shmchunk_t at an offset of the segment, and the memory with it replaced
ChunkAt(mem, o) ==
    IF o \in DOMAIN mem.chunks THEN mem.chunks[o] ELSE ZeroChunk

PutChunk(mem, o, c) ==
    [mem EXCEPT !.chunks = [x \in (DOMAIN mem.chunks) \cup {o} |->
                                IF x = o THEN c ELSE mem.chunks[x]]]

\* *list
LoadList(mem, list) ==
    IF IsSentinel(list) THEN mem.free_list[SentinelClass(list)]
    ELSE IF IsChunkList(list) THEN ChunkAt(mem, ContainerOf(list) - shmhead).list
    ELSE [next |-> 0, prev |-> 0]

\* list->next = v and list->prev = v
StoreNext(mem, list, v) ==
    IF IsSentinel(list)
    THEN [mem EXCEPT !.free_list[SentinelClass(list)].next = v]
    ELSE IF IsChunkList(list)
    THEN PutChunk(mem, ContainerOf(list) - shmhead,
                  [ChunkAt(mem, ContainerOf(list) - shmhead) EXCEPT !.list.next = v])
    ELSE Fault(mem)

StorePrev(mem, list, v) ==
    IF IsSentinel(list)
    THEN [mem EXCEPT !.free_list[SentinelClass(list)].prev = v]
    ELSE IF IsChunkList(list)
    THEN PutChunk(mem, ContainerOf(list) - shmhead,
                  [ChunkAt(mem, ContainerOf(list) - shmhead) EXCEPT !.list.prev = v])
    ELSE Fault(mem)

\* *chunk, chunk->mclass = m and chunk->active = b
LoadChunk(mem, chunk) ==
    IF ChunkInSegment(chunk) THEN ChunkAt(mem, chunk - shmhead) ELSE ZeroChunk

StoreHeader(mem, chunk, m, b) ==
    IF ChunkInSegment(chunk)
    THEN PutChunk(mem, chunk - shmhead,
                  [ChunkAt(mem, chunk - shmhead) EXCEPT !.mclass = m, !.active = b])
    ELSE Fault(mem)

(* --------------------------- intrusive list ---------------------------- *)

\* shmlist_empty - check whether the list is empty, or not
shmlist_empty(mem, list) ==
    offset_to_addr(LoadList(mem, list).next) = list

\* shmlist_init - initialize the list as an empty list
shmlist_init(mem, list) ==
    StorePrev(StoreNext(mem, list, addr_to_offset(list)), list, addr_to_offset(list))

\* shmlist_add - add an element to the base list
shmlist_add(mem, base, list) ==
    LET nlist == offset_to_addr(LoadList(mem, base).next)
        m1 == StoreNext(mem, base, addr_to_offset(list))
        m2 == StorePrev(m1, list, addr_to_offset(base))
        m3 == StoreNext(m2, list, addr_to_offset(nlist))
    IN  StorePrev(m3, nlist, addr_to_offset(list))

\* shmlist_del - delete an element from the list
shmlist_del(mem, list) ==
    LET plist == offset_to_addr(LoadList(mem, list).prev)
        nlist == offset_to_addr(LoadList(mem, list).next)
        m1 == StoreNext(mem, plist, addr_to_offset(nlist))
        m2 == StorePrev(m1, nlist, addr_to_offset(plist))
    IN  shmlist_init(m2, list)


(* ------------------------------ bit masks ------------------------------ *)

\* 1 << n
Shl1(n) == 2 ^ n

\* x & (1 << n) is not zero
TestBit(x, n) == (x \div Shl1(n)) % 2 = 1

\* x & ~((1 << n) - 1)
ClearLow(x, n) == x - (x % Shl1(n))

(* ------------------------------ allocator ------------------------------ *)

\* a split that puts the second half a whole chunk behind the first
SplitHalves_WholeStep(mem, mclass, chunk1) ==
    LET m1     == shmlist_del(mem, ListOf(chunk1))
        m2     == [m1 EXCEPT !.num_free[mclass] = @ - 1]
        offset == addr_to_offset(chunk1)
        half   == mclass - 1
        chunk2 == offset_to_addr(offset + Shl1(mclass))
        m3     == StoreHeader(StoreHeader(m2, chunk1, half, FALSE), chunk2, half, FALSE)
        m4     == shmlist_add(m3, FreeListAddr(half), ListOf(chunk1))
        m5     == shmlist_add(m4, FreeListAddr(half), ListOf(chunk2))
    IN  [m5 EXCEPT !.num_free[half] = @ + 2]

\* a split that counts only one of the two halves it attaches
SplitHalves_OneCounted(mem, mclass, chunk1) ==
    LET m1     == shmlist_del(mem, ListOf(chunk1))
        m2     == [m1 EXCEPT !.num_free[mclass] = @ - 1]
        offset == addr_to_offset(chunk1)
        half   == mclass - 1
        chunk2 == offset_to_addr(offset + Shl1(half))
        m3     == StoreHeader(StoreHeader(m2, chunk1, half, FALSE), chunk2, half, FALSE)
        m4     == shmlist_add(m3, FreeListAddr(half), ListOf(chunk1))
        m5     == shmlist_add(m4, FreeListAddr(half), ListOf(chunk2))
    IN  [m5 EXCEPT !.num_free[half] = @ + 1]

\* shmmgr_split_chunk once chunk1, the head of free_list[mclass], is found:
\* detach it, halve it, attach both halves to free_list[mclass - 1]
SplitHalves(mem, mclass, chunk1) ==
    LET m1     == shmlist_del(mem, ListOf(chunk1))
        m2     == [m1 EXCEPT !.num_free[mclass] = @ - 1]
        offset == addr_to_offset(chunk1)
        half   == mclass - 1
        chunk2 == offset_to_addr(offset + Shl1(half))
        m3     == StoreHeader(StoreHeader(m2, chunk1, half, FALSE), chunk2, half, FALSE)
        m4     == shmlist_add(m3, FreeListAddr(half), ListOf(chunk1))
        m5     == shmlist_add(m4, FreeListAddr(half), ListOf(chunk2))
    IN  [m5 EXCEPT !.num_free[half] = @ + 2]

\* a split that fails at the top class after it has touched a counter
SplitExhausted_Dirty(mem) ==
    [ok |-> FALSE, mem |-> [mem EXCEPT !.num_free[SHMCLASS_MAX_BITS] = @ - 1]]

\* shmmgr_split_chunk when the list of SHMCLASS_MAX_BITS is empty: return false
SplitExhausted(mem) == [ok |-> FALSE, mem |-> mem]

\* shmmgr_split_chunk - split a large chunk into two half size.
\* Returns [ok, mem]: the boolean the function returns and the memory it leaves.
RECURSIVE shmmgr_split_chunk(_, _)
shmmgr_split_chunk(mem, mclass) ==
    IF ~(mclass > SHMCLASS_MIN_BITS /\ mclass <= SHMCLASS_MAX_BITS)
    THEN [ok |-> FALSE, mem |-> Abort(mem)]
    ELSE
    LET r == IF shmlist_empty(mem, FreeListAddr(mclass))
             THEN IF mclass = SHMCLASS_MAX_BITS
                  THEN SplitExhausted(mem)
                  ELSE shmmgr_split_chunk(mem, mclass + 1)
             ELSE [ok |-> TRUE, mem |-> mem]
    IN  IF ~r.ok \/ r.mem.status # "ok" THEN [ok |-> FALSE, mem |-> r.mem]
        ELSE
        LET list   == offset_to_addr(r.mem.free_list[mclass].next)
            chunk1 == ContainerOf(list)
        IN  IF ~ChunkInSegment(chunk1)
            THEN [ok |-> FALSE, mem |-> Fault(r.mem)]
            ELSE IF LoadChunk(r.mem, chunk1).mclass # mclass
            THEN [ok |-> FALSE, mem |-> Abort(r.mem)]
            ELSE [ok |-> TRUE, mem |-> SplitHalves(r.mem, mclass, chunk1)]

\* the class shmmgr_alloc computes from the size before it takes the lock
AllocClass(size) == fls64(U64Sub(U64Add(size, U64(ListDisp)), U64(1)))

\* shmmgr_alloc once the head chunk of free_list[mclass] is found:
\* detach it and count it as active
AllocDetach(mem, mclass, chunk) ==
    LET m1 == shmlist_del(mem, ListOf(chunk))
    IN  [m1 EXCEPT !.num_free[mclass] = @ - 1,
                   !.num_active[mclass] = @ + 1]

\* what shmmgr_alloc leaves and returns when shmmgr_split_chunk failed
AllocFailed(mem) == [ret |-> NULL, mem |-> mem]

\* shmmgr_alloc between pthread_mutex_lock and pthread_mutex_unlock.
\* Returns [ret, mem]: the address returned (NULL on failure) and the memory.
shmmgr_alloc_locked(mem, mclass) ==
    LET r == IF shmlist_empty(mem, FreeListAddr(mclass))
             THEN shmmgr_split_chunk(mem, mclass + 1)
             ELSE [ok |-> TRUE, mem |-> mem]
    IN  IF ~r.ok \/ r.mem.status # "ok" THEN AllocFailed(r.mem)
        ELSE IF shmlist_empty(r.mem, FreeListAddr(mclass))
        THEN [ret |-> NULL, mem |-> Abort(r.mem)]
        ELSE
        LET list  == offset_to_addr(r.mem.free_list[mclass].next)
            chunk == ContainerOf(list)
        IN  IF ~ChunkInSegment(chunk)
            THEN [ret |-> NULL, mem |-> Fault(r.mem)]
            ELSE IF LoadChunk(r.mem, chunk).mclass # mclass
            THEN [ret |-> NULL, mem |-> Abort(r.mem)]
            ELSE [ret |-> ListOf(chunk), mem |-> AllocDetach(r.mem, mclass, chunk)]

\* the buddy of the chunk at offset in class mclass
BuddyOffset(offset, mclass) ==
    IF TestBit(offset, mclass)
    THEN offset - Shl1(mclass)
    ELSE offset + Shl1(mclass)

\* one consolidation of the loop of shmmgr_free: detach the buddy and write
\* the header of the chunk of class mclass + 1 that the two make up
MergeBuddy(mem, mclass, offset, buddy) ==
    LET m1 == shmlist_del(mem, ListOf(buddy))
        m2 == [m1 EXCEPT !.num_free[mclass] = @ - 1]
    IN  StoreHeader(m2, offset_to_addr(ClearLow(offset, mclass + 1)), mclass + 1, FALSE)

\* The coalescing loop of shmmgr_free. A buddy header that lies outside the
\* segment holds whatever is mapped there: `beyond` is what the read meets,
\* "differs" (the loop stops) or "fault" (unmapped, or bytes that pass for a
\* free chunk of the class and send shmlist_del through stray links).
\* Returns [mem, mclass, chunk].
RECURSIVE Coalesce(_, _, _, _, _)
Coalesce(mem, mclass, offset, chunk, beyond) ==
    IF ~(mclass < SHMCLASS_MAX_BITS) \/ mem.status # "ok"
    THEN [mem |-> mem, mclass |-> mclass, chunk |-> chunk]
    ELSE
    LET offset_buddy == BuddyOffset(offset, mclass)
        buddy == offset_to_addr(offset_buddy)
    IN  IF offset_buddy < SizeofShmhead
        THEN [mem |-> mem, mclass |-> mclass, chunk |-> chunk]
        ELSE IF ~ChunkInSegment(buddy)
        THEN [mem |-> IF beyond = "fault" THEN Fault(mem) ELSE mem,
              mclass |-> mclass, chunk |-> chunk]
        ELSE IF LoadChunk(mem, buddy).active \/ LoadChunk(mem, buddy).mclass # mclass
        THEN [mem |-> mem, mclass |-> mclass, chunk |-> chunk]
        ELSE Coalesce(MergeBuddy(mem, mclass, offset, buddy), mclass + 1,
                      ClearLow(offset, mclass + 1),
                      offset_to_addr(ClearLow(offset, mclass + 1)), beyond)

\* chunk->active = false; shmhead->num_active[mclass]--;
FreeRelease(mem, chunk, mclass) ==
    LET m1 == StoreHeader(mem, chunk, LoadChunk(mem, chunk).mclass, FALSE)
    IN  [m1 EXCEPT !.num_active[mclass] = @ - 1]

\* attach this chunk on the free_list[mclass]
FreeAttach(mem, mclass, chunk) ==
    LET m1 == shmlist_add(mem, FreeListAddr(mclass), ListOf(chunk))
    IN  [m1 EXCEPT !.num_free[mclass] = @ + 1]

\* shmmgr_free between pthread_mutex_lock and pthread_mutex_unlock; mclass is
\* the class read from the chunk header before the lock was taken.
shmmgr_free_locked(mem, ptr, mclass, beyond) ==
    LET chunk == ContainerOf(ptr)
        c     == Coalesce(FreeRelease(mem, chunk, mclass), mclass,
                          addr_to_offset(chunk), chunk, beyond)
    IN  IF c.mem.status # "ok" THEN c.mem
        ELSE FreeAttach(c.mem, c.mclass, c.chunk)

(* ------------------------------ bootstrap ------------------------------ *)

\* shmmgr_init_mutex - initialize mutex on shared memory segment. The three
\* booleans are the outcomes of pthread_mutexattr_init,
\* pthread_mutexattr_setpshared and pthread_mutex_init.
\* Returns [ret, lock]: the boolean returned and the mutex it leaves.
shmmgr_init_mutex(lk, attr_ok, setpshared_ok, mutex_ok) ==
    IF ~attr_ok THEN [ret |-> FALSE, lock |-> lk]
    ELSE IF ~setpshared_ok THEN [ret |-> FALSE, lock |-> lk]
    ELSE IF ~mutex_ok THEN [ret |-> FALSE, lock |-> lk]
    ELSE [ret |-> TRUE, lock |-> [init |-> TRUE, pshared |-> TRUE, owner |-> 0]]

\* the offset at which shmmgr_init starts to carve chunks
SeedStart ==
    LET offset == Shl1(fls64(U64(SizeofShmhead)) + 1)
    IN  IF offset < SHMCLASS_MIN_SIZE THEN SHMCLASS_MIN_SIZE ELSE offset

\* while (shmhead->segment_size < offset + (1 << mclass)) mclass--;
\* a shift by a negative count is undefined: the loop then yields -1
RECURSIVE TruncateClass(_, _)
TruncateClass(offset, mclass) ==
    IF mclass < 0 THEN -1
    ELSE IF segment_size < offset + Shl1(mclass)
    THEN TruncateClass(offset, mclass - 1)
    ELSE mclass

\* The seeding loop of shmmgr_init. Returns [mem, offset]; status "undefined"
\* when the loop runs into the undefined shift.
RECURSIVE SeedLoop(_, _)
SeedLoop(mem, offset) ==
    IF U64Less(U64Sub(U64(segment_size), U64(offset)), U64(SHMCLASS_MIN_SIZE))
       \/ mem.status # "ok"
    THEN [mem |-> mem, offset |-> offset]
    ELSE
    LET first  == ffs64(U64(offset)) - 1
        capped == IF first > SHMCLASS_MAX_BITS THEN SHMCLASS_MAX_BITS ELSE first
    IN  IF ~(capped >= SHMCLASS_MIN_BITS)
        THEN [mem |-> Abort(mem), offset |-> offset]
        ELSE
        LET mclass == TruncateClass(offset, capped)
        IN  IF mclass < 0
            THEN [mem |-> [mem EXCEPT !.status = "undefined"], offset |-> offset]
            ELSE IF mclass < SHMCLASS_MIN_BITS
            THEN [mem |-> mem, offset |-> offset]
            ELSE
            LET chunk == offset_to_addr(offset)
                m1 == StoreHeader(mem, chunk, mclass, FALSE)
                m2 == shmlist_add(m1, FreeListAddr(mclass), ListOf(chunk))
                m3 == [m2 EXCEPT !.num_free[mclass] = @ + 1]
            \* memory and offset are bound as values before the loop goes round
            IN  CHOOSE r \in {SeedLoop(v, o) : v \in {m3},
                                               o \in {offset + Shl1(mclass)}} : TRUE

\* the segment as shmget hands it over (zero filled) with the header that
\* the first loop of shmmgr_init writes
FreshMem ==
    [free_list  |-> [m \in Classes |->
                        [next |-> addr_to_offset(FreeListAddr(m)),
                         prev |-> addr_to_offset(FreeListAddr(m))]],
     num_active |-> [m \in Classes |-> 0],
     num_free   |-> [m \in Classes |-> 0],
     chunks     |-> <<>>,
     status     |-> "ok"]

Seeded == SeedLoop(FreshMem, SeedStart)

\* op is the call a process is in or has last returned from
IdleFrame == [op |-> "none", size |-> U64(0), mclass |-> 0, ptr |-> NULL, ret |-> NULL,
              locks |-> 0, unlocks |-> 0]

Init ==
    /\ shmhead = NULL
    /\ init_pc = "start"
    /\ init_ret = 0
    /\ segment_size = 0
    /\ free_list = [m \in Classes |-> [next |-> 0, prev |-> 0]]
    /\ num_active = [m \in Classes |-> 0]
    /\ num_free = [m \in Classes |-> 0]
    /\ lock = [init |-> FALSE, pshared |-> FALSE, owner |-> 0]
    /\ chunks = <<>>
    /\ pc = [p \in Procs |-> "idle"]
    /\ frame = [p \in Procs |-> IdleFrame]
    /\ held = [p \in Procs |-> {}]
    /\ carved = 0
    /\ calls = 0
    /\ trail = <<>>

\* shmmgr_init(size, hugetlb) with size taken from sizes: hugetlb only adds
\* SHM_HUGETLB to the shmget flags
shmmgr_init_of(sizes) ==
    /\ init_pc = "start"
    /\ \E size \in sizes, addr \in ShmatAddrs, shmget_ok \in BOOLEAN, shmat_ok \in BOOLEAN :
        IF ~shmget_ok
        THEN /\ init_pc' = "returned"
             /\ init_ret' = -1
             /\ UNCHANGED <<shmhead, segment_size, free_list, num_active, num_free,
                            lock, chunks, carved>>
        ELSE IF ~shmat_ok
        THEN /\ init_pc' = "returned"
             /\ init_ret' = -1
             /\ shmhead' = -1
             /\ UNCHANGED <<segment_size, free_list, num_active, num_free,
                            lock, chunks, carved>>
        ELSE /\ shmhead' = addr
             /\ segment_size' = size
             /\ \E s \in {Seeded'} :
                    /\ free_list' = s.mem.free_list
                    /\ num_active' = s.mem.num_active
                    /\ num_free' = s.mem.num_free
                    /\ chunks' = s.mem.chunks
                    /\ carved' = s.offset - SeedStart
                    /\ IF s.mem.status = "ok"
                       THEN /\ \E attr_ok \in BOOLEAN, setpshared_ok \in BOOLEAN,
                                  mutex_ok \in BOOLEAN :
                                lock' = shmmgr_init_mutex(lock, attr_ok, setpshared_ok,
                                                          mutex_ok).lock
                            /\ init_pc' = "returned"
                            /\ init_ret' = 0
                       ELSE /\ lock' = lock
                            /\ init_pc' = s.mem.status
                            /\ init_ret' = init_ret
    /\ UNCHANGED <<pc, frame, held, calls, trail>>

\* shmmgr_init as the processes of the concurrent runs find it called
shmmgr_init == shmmgr_init_of(SegSizes)

(* ------------------------------ processes ------------------------------ *)

\* sizes the callers ask for
ReqSizes == {U64(1), U64(57), U64(2 ^ 30), U64(2147483647), U64Max}

\* the segment is bootstrapped and its mutex can be locked
Ready == init_pc = "returned" /\ init_ret = 0 /\ lock.init

Outstanding == UNION {held[p] : p \in Procs}

InAlloc == {p \in Procs : pc[p] \in {"alloc_lock", "alloc_locked", "alloc_unlock"}}

SetMem(mem) ==
    /\ free_list' = mem.free_list
    /\ num_active' = mem.num_active
    /\ num_free' = mem.num_free
    /\ chunks' = mem.chunks

\* shmmgr_alloc up to pthread_mutex_lock
AllocCall(p) ==
    /\ Ready /\ pc[p] = "idle" /\ calls < MaxCalls
    /\ Cardinality(Outstanding) + Cardinality(InAlloc) < MaxHeld
    /\ \E size \in ReqSizes :
        LET mclass == AllocClass(size)
        IN  IF mclass > SHMCLASS_MAX_BITS
            THEN /\ pc' = [pc EXCEPT ![p] = "alloc_return"]
                 /\ frame' = [frame EXCEPT ![p] = [IdleFrame EXCEPT !.op = "alloc",
                                                                   !.size = size]]
            ELSE /\ pc' = [pc EXCEPT ![p] = "alloc_lock"]
                 /\ frame' = [frame EXCEPT ![p] = [IdleFrame EXCEPT
                        !.op = "alloc",
                        !.size = size,
                        !.mclass = IF mclass < SHMCLASS_MIN_BITS
                                   THEN SHMCLASS_MIN_BITS ELSE mclass]]
    /\ calls' = calls + 1
    /\ UNCHANGED <<trail, shmhead, init_pc, init_ret, segment_size, free_list, num_active, num_free,
                   lock, chunks, held, carved>>

\* pthread_mutex_lock(&shmhead->lock) in shmmgr_alloc
AllocLock(p) ==
    /\ pc[p] = "alloc_lock" /\ lock.owner = 0
    /\ lock' = [lock EXCEPT !.owner = p]
    /\ frame' = [frame EXCEPT ![p].locks = @ + 1]
    /\ pc' = [pc EXCEPT ![p] = "alloc_locked"]
    /\ UNCHANGED <<trail, shmhead, init_pc, init_ret, segment_size, free_list, num_active, num_free,
                   chunks, held, carved, calls>>

\* shmmgr_alloc under the lock: split if need be, detach the head chunk
AllocBody(p) ==
    /\ pc[p] = "alloc_locked"
    /\ \E r \in {shmmgr_alloc_locked(Mem, frame[p].mclass)} :
           /\ SetMem(r.mem)
           /\ frame' = [frame EXCEPT ![p].ret = r.ret]
           /\ pc' = [pc EXCEPT ![p] = IF r.mem.status = "ok" THEN "alloc_unlock"
                                       ELSE r.mem.status]
    /\ UNCHANGED <<trail, shmhead, init_pc, init_ret, segment_size, lock, held, carved, calls>>

\* a return of shmmgr_alloc that unlocks only when it hands out a chunk
AllocUnlock_Leak(p) ==
    /\ pc[p] = "alloc_unlock"
    /\ lock' = IF frame[p].ret = NULL THEN lock ELSE [lock EXCEPT !.owner = 0]
    /\ held' = [held EXCEPT ![p] = IF frame[p].ret = NULL THEN @
                    ELSE @ \cup {[ptr |-> frame[p].ret, mclass |-> frame[p].mclass]}]
    /\ frame' = [frame EXCEPT ![p] = [IdleFrame EXCEPT !.op = "alloc",
                                                       !.ret = frame[p].ret,
                                                       !.locks = frame[p].locks,
                                                       !.unlocks = IF frame[p].ret = NULL
                                                                   THEN frame[p].unlocks
                                                                   ELSE frame[p].unlocks + 1]]
    /\ pc' = [pc EXCEPT ![p] = "idle"]
    /\ UNCHANGED <<trail, shmhead, init_pc, init_ret, segment_size, free_list, num_active, num_free,
                   chunks, carved, calls>>

\* pthread_mutex_unlock(&shmhead->lock) and the return that follows it
AllocUnlock(p) ==
    /\ pc[p] = "alloc_unlock"
    /\ lock' = [lock EXCEPT !.owner = 0]
    /\ held' = [held EXCEPT ![p] = IF frame[p].ret = NULL THEN @
                    ELSE @ \cup {[ptr |-> frame[p].ret, mclass |-> frame[p].mclass]}]
    /\ frame' = [frame EXCEPT ![p] = [IdleFrame EXCEPT !.op = "alloc",
                                                       !.ret = frame[p].ret,
                                                       !.locks = frame[p].locks,
                                                       !.unlocks = frame[p].unlocks + 1]]
    /\ pc' = [pc EXCEPT ![p] = "idle"]
    /\ UNCHANGED <<trail, shmhead, init_pc, init_ret, segment_size, free_list, num_active, num_free,
                   chunks, carved, calls>>

\* the return NULL of shmmgr_alloc that precedes the lock
AllocReturn(p) ==
    /\ pc[p] = "alloc_return"
    /\ frame' = [frame EXCEPT ![p] = [IdleFrame EXCEPT !.op = "alloc"]]
    /\ pc' = [pc EXCEPT ![p] = "idle"]
    /\ UNCHANGED <<trail, shmhead, init_pc, init_ret, segment_size, free_list, num_active, num_free,
                   lock, chunks, held, carved, calls>>

\* shmmgr_free up to pthread_mutex_lock: the class is read from the header
FreeCall(p) ==
    /\ Ready /\ pc[p] = "idle" /\ calls < MaxCalls
    /\ \E h \in held[p] :
        /\ held' = [held EXCEPT ![p] = @ \ {h}]
        /\ frame' = [frame EXCEPT ![p] = [IdleFrame EXCEPT
                        !.op = "free",
                        !.ptr = h.ptr,
                        !.mclass = LoadChunk(Mem, ContainerOf(h.ptr)).mclass]]
    /\ pc' = [pc EXCEPT ![p] = "free_lock"]
    /\ calls' = calls + 1
    /\ UNCHANGED <<trail, shmhead, init_pc, init_ret, segment_size, free_list, num_active, num_free,
                   lock, chunks, carved>>

\* pthread_mutex_lock(&shmhead->lock) in shmmgr_free
FreeLock(p) ==
    /\ pc[p] = "free_lock" /\ lock.owner = 0
    /\ lock' = [lock EXCEPT !.owner = p]
    /\ frame' = [frame EXCEPT ![p].locks = @ + 1]
    /\ pc' = [pc EXCEPT ![p] = "free_locked"]
    /\ UNCHANGED <<trail, shmhead, init_pc, init_ret, segment_size, free_list, num_active, num_free,
                   chunks, held, carved, calls>>

\* shmmgr_free under the lock: mark free, coalesce, attach
FreeBody(p) ==
    /\ pc[p] = "free_locked"
    /\ \E beyond \in {"differs", "fault"} :
        \E m \in {shmmgr_free_locked(Mem, frame[p].ptr, frame[p].mclass, beyond)} :
            /\ SetMem(m)
            /\ pc' = [pc EXCEPT ![p] = IF m.status = "ok" THEN "free_unlock"
                                        ELSE m.status]
    /\ UNCHANGED <<trail, shmhead, init_pc, init_ret, segment_size, lock, frame, held, carved, calls>>

\* pthread_mutex_unlock(&shmhead->lock) and the return of shmmgr_free
FreeUnlock(p) ==
    /\ pc[p] = "free_unlock"
    /\ lock' = [lock EXCEPT !.owner = 0]
    /\ frame' = [frame EXCEPT ![p] = [IdleFrame EXCEPT !.op = "free",
                                                       !.locks = frame[p].locks,
                                                       !.unlocks = frame[p].unlocks + 1]]
    /\ pc' = [pc EXCEPT ![p] = "idle"]
    /\ UNCHANGED <<trail, shmhead, init_pc, init_ret, segment_size, free_list, num_active, num_free,
                   chunks, held, carved, calls>>

Next ==
    \/ shmmgr_init
    \/ \E p \in Procs : AllocCall(p)
    \/ \E p \in Procs : AllocLock(p)
    \/ \E p \in Procs : AllocBody(p)
    \/ \E p \in Procs : AllocUnlock(p)
    \/ \E p \in Procs : AllocReturn(p)
    \/ \E p \in Procs : FreeCall(p)
    \/ \E p \in Procs : FreeLock(p)
    \/ \E p \in Procs : FreeBody(p)
    \/ \E p \in Procs : FreeUnlock(p)

Spec == Init /\ [][Next]_vars

(* ------------------------- the test driver main() ---------------------- *)
(* main() bootstraps a segment of the size given as argv[1] and then runs  *)
(* the commands a:<size> and f:<index> one after the other in one process; *)
(* each command is one whole call of shmmgr_alloc or shmmgr_free.          *)

\* the process that runs main()
Main == CHOOSE p \in Procs : \A q \in Procs : p <= q

\* commands main() runs after the bootstrap
MaxCmds == 6

\* argv[1]: the sizes main() bootstraps the segment with
MainSizes == {1024, 2048, 2216, 2240, 4096, 6144}

\* the sizes of the a: commands
MainReqSizes == {U64(1), U64(57), U64(2 ^ 30)}

\* The buddy headers that the coalescing loop of shmmgr_free dereferences
\* (buddy->active, buddy->mclass), each with the class it is compared with.
RECURSIVE BuddyReads(_, _, _)
BuddyReads(mem, mclass, offset) ==
    IF ~(mclass < SHMCLASS_MAX_BITS) THEN {}
    ELSE
    LET offset_buddy == BuddyOffset(offset, mclass)
        buddy == offset_to_addr(offset_buddy)
    IN  IF offset_buddy < SizeofShmhead THEN {}
        ELSE {[offset |-> offset_buddy, mclass |-> mclass]} \cup
             (IF ~ChunkInSegment(buddy) THEN {}
              ELSE IF LoadChunk(mem, buddy).active \/ LoadChunk(mem, buddy).mclass # mclass
              THEN {}
              ELSE BuddyReads(MergeBuddy(mem, mclass, offset, buddy), mclass + 1,
                              ClearLow(offset, mclass + 1)))

\* one entry of the trail: done is FALSE for the call the process died in
Cmd(op, size, ptr, ret, reads, done) ==
    [op |-> op, size |-> size, ptr |-> ptr, ret |-> ret, reads |-> reads, done |-> done]

\* if (shmmgr_init(size, false) < 0) ... in main()
main_init == shmmgr_init_of(MainSizes)

\* a:<size> : ptr[j++] = shmmgr_alloc(size), the whole call
main_alloc ==
    /\ Ready /\ pc[Main] = "idle" /\ lock.owner = 0 /\ Len(trail) < MaxCmds
    /\ \E size \in MainReqSizes :
        LET mclass  == AllocClass(size)
            clamped == IF mclass < SHMCLASS_MIN_BITS THEN SHMCLASS_MIN_BITS ELSE mclass
        IN  IF mclass > SHMCLASS_MAX_BITS
            THEN /\ frame' = [frame EXCEPT ![Main] = [IdleFrame EXCEPT !.op = "alloc"]]
                 /\ trail' = Append(trail, Cmd("alloc", size, NULL, NULL, {}, TRUE))
                 /\ UNCHANGED <<free_list, num_active, num_free, chunks, lock, held, pc>>
            ELSE \E r \in {shmmgr_alloc_locked(Mem, clamped)} :
                 /\ SetMem(r.mem)
                 /\ IF r.mem.status = "ok"
                    THEN /\ frame' = [frame EXCEPT ![Main] =
                                [IdleFrame EXCEPT !.op = "alloc", !.ret = r.ret,
                                                  !.locks = 1, !.unlocks = 1]]
                         /\ held' = [held EXCEPT ![Main] = IF r.ret = NULL THEN @
                                        ELSE @ \cup {[ptr |-> r.ret, mclass |-> clamped]}]
                         /\ trail' = Append(trail, Cmd("alloc", size, NULL, r.ret, {}, TRUE))
                         /\ UNCHANGED <<lock, pc>>
                    ELSE /\ frame' = [frame EXCEPT ![Main] =
                                [IdleFrame EXCEPT !.op = "alloc", !.size = size,
                                                  !.mclass = clamped, !.locks = 1]]
                         /\ lock' = [lock EXCEPT !.owner = Main]
                         /\ pc' = [pc EXCEPT ![Main] = r.mem.status]
                         /\ trail' = Append(trail, Cmd("alloc", size, NULL, NULL, {}, FALSE))
                         /\ UNCHANGED held
    /\ calls' = calls + 1
    /\ UNCHANGED <<shmhead, init_pc, init_ret, segment_size, carved>>

\* f:<index> : shmmgr_free(ptr[k]) of an address that is allocated, the whole call
main_free ==
    /\ Ready /\ pc[Main] = "idle" /\ lock.owner = 0 /\ Len(trail) < MaxCmds
    /\ \E h \in held[Main], beyond \in {"differs", "fault"} :
        LET chunk  == ContainerOf(h.ptr)
            mclass == LoadChunk(Mem, chunk).mclass
            reads  == BuddyReads(FreeRelease(Mem, chunk, mclass), mclass,
                                 addr_to_offset(chunk))
        IN  \E m \in {shmmgr_free_locked(Mem, h.ptr, mclass, beyond)} :
            /\ SetMem(m)
            /\ held' = [held EXCEPT ![Main] = @ \ {h}]
            /\ IF m.status = "ok"
               THEN /\ frame' = [frame EXCEPT ![Main] =
                            [IdleFrame EXCEPT !.op = "free", !.locks = 1, !.unlocks = 1]]
                    /\ trail' = Append(trail, Cmd("free", U64(0), h.ptr, NULL, reads, TRUE))
                    /\ UNCHANGED <<lock, pc>>
               ELSE /\ frame' = [frame EXCEPT ![Main] =
                            [IdleFrame EXCEPT !.op = "free", !.ptr = h.ptr,
                                              !.mclass = mclass, !.locks = 1]]
                    /\ lock' = [lock EXCEPT !.owner = Main]
                    /\ pc' = [pc EXCEPT ![Main] = m.status]
                    /\ trail' = Append(trail, Cmd("free", U64(0), h.ptr, NULL, reads, FALSE))
    /\ calls' = calls + 1
    /\ UNCHANGED <<shmhead, init_pc, init_ret, segment_size, carved>>

MainNext ==
    \/ main_init
    \/ main_alloc
    \/ main_free

MainSpec == Init /\ [][MainNext]_vars


(* ------------------------- what the claims read ------------------------ *)

\* shmmgr_init returned 0
Booted == init_pc = "returned" /\ init_ret = 0

\* no process is between pthread_mutex_lock and pthread_mutex_unlock
Unlocked == lock.owner = 0

\* the links of the ring rooted at free_list[m], followed from the sentinel
RECURSIVE RingWalk(_, _, _)
RingWalk(m, list, seen) ==
    LET n == offset_to_addr(LoadList(Mem, list).next)
    IN  IF n = FreeListAddr(m) \/ n = NULL \/ n \in seen THEN seen
        ELSE RingWalk(m, n, seen \cup {n})

\* the chunks on free_list[m]
Ring(m) == {ContainerOf(n) : n \in RingWalk(m, FreeListAddr(m), {})}

\* every allocation that was returned and not freed since, with its holder
AllHeld == {<<p, h>> : p \in Procs, h \in Outstanding} \cap
           {<<p, h>> \in Procs \X Outstanding : h \in held[p]}

\* the bytes [lo, hi) of the chunk behind a returned address
ChunkLo(ptr) == addr_to_offset(ContainerOf(ptr))

ChunkHi(ptr, mclass) == ChunkLo(ptr) + Shl1(mclass)

Disjoint(ptr1, mclass1, ptr2, mclass2) ==
    \/ ChunkHi(ptr1, mclass1) <= ChunkLo(ptr2)
    \/ ChunkHi(ptr2, mclass2) <= ChunkLo(ptr1)

(* -------------------------------- claims -------------------------------- *)

\* C1: any two distinct outstanding allocations occupy disjoint byte ranges,
\* and shmmgr_alloc never hands out an address inside a chunk that is still
\* allocated.
C1_NoOverlap ==
    /\ \A x \in AllHeld : \A y \in AllHeld :
          x # y => Disjoint(x[2].ptr, x[2].mclass, y[2].ptr, y[2].mclass)
    /\ \A p \in Procs :
          (pc[p] = "alloc_unlock" /\ frame[p].ret # NULL) =>
              \A x \in AllHeld :
                  Disjoint(frame[p].ret, frame[p].mclass, x[2].ptr, x[2].mclass)

\* C2: from the return of shmmgr_alloc until the call of shmmgr_free the
\* header of the chunk has active = true and the class it was allocated with.
C2_ActiveWhileHeld ==
    \A x \in AllHeld :
        /\ LoadChunk(Mem, ContainerOf(x[2].ptr)).active = TRUE
        /\ LoadChunk(Mem, ContainerOf(x[2].ptr)).mclass = x[2].mclass

\* C3: whenever the lock is not held, the ring at free_list[m] holds exactly
\* num_free[m] chunks, each of class m and not active.
C3_FreeListWellFormed ==
    (Booted /\ Unlocked) =>
        \A m \in Classes :
            /\ Cardinality(Ring(m)) = num_free[m]
            /\ \A c \in Ring(m) :
                  LoadChunk(Mem, c).mclass = m /\ LoadChunk(Mem, c).active = FALSE

\* the bytes that num_free and num_active account for
RECURSIVE CountedUpTo(_)
CountedUpTo(m) ==
    LET n == num_free[m] + num_active[m]
        w == IF n = 0 THEN 0 ELSE n * Shl1(m)
    IN  IF m = 0 THEN w ELSE w + CountedUpTo(m - 1)

\* C4: whenever the lock is not held, the sum over the classes of
\* (num_free[m] + num_active[m]) * 2^m equals the bytes carved by the seeding
\* loop.
C4_Conservation ==
    (Booted /\ Unlocked) => CountedUpTo(SHMCLASS_MAX_BITS) = carved

\* a chunk was split (a header was written behind the first chunk) and every
\* chunk has been freed and coalesced back
C4_Witness ==
    /\ Booted /\ Unlocked
    /\ \A p \in Procs : pc[p] = "idle" /\ held[p] = {}
    /\ (SeedStart + SHMCLASS_MIN_SIZE) \in DOMAIN chunks
    /\ \E p \in Procs : frame[p].op = "free"
    /\ \E m \in Classes : num_free[m] = 1 /\ Shl1(m) = carved

\* C5: after shmmgr_free has returned no chunk and its buddy are both on
\* free_list[m], for any m < SHMCLASS_MAX_BITS.
C5_NoFreeBuddies ==
    (Booted /\ Unlocked) =>
        \A m \in 0 .. (SHMCLASS_MAX_BITS - 1) : \A c \in Ring(m) :
            LET b == BuddyOffset(addr_to_offset(c), m)
            IN  b >= SizeofShmhead => offset_to_addr(b) \notin Ring(m)

\* no free list of a class in [m, SHMCLASS_MAX_BITS] holds a chunk
NoFreeFrom(m) ==
    \A k \in m .. SHMCLASS_MAX_BITS : shmlist_empty(Mem, FreeListAddr(k))

\* C6: shmmgr_alloc returns NULL if and only if the class is above
\* SHMCLASS_MAX_BITS or no free list of a class from the requested one up
\* holds a chunk; otherwise it returns an address.
C6_NullIffExhausted ==
    [][\A p \in Procs :
        /\ (pc[p] = "idle" /\ pc'[p] = "alloc_return")
              => AllocClass(frame'[p].size) > SHMCLASS_MAX_BITS
        /\ (pc[p] = "idle" /\ pc'[p] = "alloc_lock")
              => AllocClass(frame'[p].size) <= SHMCLASS_MAX_BITS
        /\ (pc[p] = "alloc_locked" /\ pc'[p] # "alloc_locked")
              => /\ pc'[p] = "alloc_unlock"
                 /\ frame'[p].ret = NULL <=> NoFreeFrom(frame[p].mclass)]_vars

\* C7: when shmmgr_alloc returns NULL the free lists, the counters and the
\* chunk headers are as they were before the call.
C7_FailureLeavesState ==
    [][\A p \in Procs :
        /\ (pc[p] = "idle" /\ pc'[p] = "alloc_return")
              => UNCHANGED <<free_list, num_free, num_active, chunks>>
        /\ (pc[p] = "alloc_locked" /\ pc'[p] = "alloc_unlock" /\ frame'[p].ret = NULL)
              => UNCHANGED <<free_list, num_free, num_active, chunks>>]_vars

\* an allocation has failed under the lock, after the split went up the
\* classes, while another chunk is allocated
C7_Witness ==
    \E p \in Procs :
        /\ pc[p] = "alloc_unlock" /\ frame[p].ret = NULL
        /\ frame[p].mclass < SHMCLASS_MAX_BITS
        /\ Outstanding # {}

\* 2^k as a 64 bit number, and the bytes a chunk of class k leaves after
\* the header
Pow2U64(k) == IF k < 16 THEN <<Shl1(k), 0, 0, 0>> ELSE <<0, Shl1(k - 16), 0, 0>>

Usable(k) == U64Sub(Pow2U64(k), U64(ListDisp))

\* C8: a successful shmmgr_alloc(size) hands out a chunk whose class m leaves
\* room for size bytes after the header, and no smaller class from
\* SHMCLASS_MIN_BITS up would.
C8_SmallestSufficientClass ==
    \A p \in Procs :
        (pc[p] = "alloc_unlock" /\ frame[p].ret # NULL) =>
            /\ LoadChunk(Mem, ContainerOf(frame[p].ret)).mclass = frame[p].mclass
            /\ ~U64Less(Usable(frame[p].mclass), frame[p].size)
            /\ \A k \in SHMCLASS_MIN_BITS .. (frame[p].mclass - 1) :
                  U64Less(Usable(k), frame[p].size)

\* C9: a call locks the mutex at most once and has unlocked it as often as
\* it locked it when it returns; a process that has returned does not hold
\* the mutex; the free lists and counters change only in a step of the
\* process that holds the mutex.
C9_LockDiscipline ==
    /\ [](\A p \in Procs :
            /\ frame[p].locks <= 1
            /\ pc[p] = "idle" => (frame[p].unlocks = frame[p].locks /\ lock.owner # p))
    /\ [][(Booted /\ <<free_list, num_free, num_active>>' # <<free_list, num_free, num_active>>)
            => /\ lock.owner \in Procs
               /\ lock'.owner = lock.owner
               /\ \A p \in Procs : pc'[p] # pc[p] => p = lock.owner]_vars

\* shmmgr_alloc has returned NULL through the path that unlocks
C9_Witness ==
    \E p \in Procs :
        /\ pc[p] = "idle" /\ frame[p].op = "alloc" /\ frame[p].ret = NULL
        /\ frame[p].locks = 1 /\ frame[p].unlocks = 1

\* C10: shmmgr_init returns 0 only when the lock was initialized in
\* process-shared mode; it returns -1 when the initialization fails.
C10_InitReportsLockFailure ==
    (init_pc = "returned" /\ init_ret = 0) => (lock.init /\ lock.pshared)

\* the addresses of the bytes of the segment
SegmentAddrs == shmhead .. (shmhead + segment_size - 1)

\* C11 as stated: offset_to_addr(addr_to_offset(a)) = a for every address a
\* of the segment, the segment base included; NULL and 0 translate into each
\* other.
C11_RoundTrip ==
    (Booted /\ trail = <<>>) =>
        /\ \A a \in SegmentAddrs : offset_to_addr(addr_to_offset(a)) = a
        /\ addr_to_offset(NULL) = 0
        /\ offset_to_addr(0) = NULL

\* C11 amended: the round trip holds for every address of the segment above
\* the segment base; the base itself has offset 0, which stands for NULL.
C11_RoundTripAboveBase ==
    (Booted /\ trail = <<>>) =>
        /\ \A a \in SegmentAddrs \ {shmhead} : offset_to_addr(addr_to_offset(a)) = a
        /\ addr_to_offset(shmhead) = 0
        /\ addr_to_offset(NULL) = 0
        /\ offset_to_addr(0) = NULL

\* the bootstrap has translated addresses into the links of a seeded chunk
\* and of the sentinels, and the last byte of the segment translates back
C11_Witness ==
    /\ Booted /\ trail = <<>>
    /\ \E m \in Classes : num_free[m] > 0 /\ free_list[m].next # addr_to_offset(FreeListAddr(m))
    /\ offset_to_addr(addr_to_offset(shmhead + segment_size - 1)) = shmhead + segment_size - 1

\* C12: when shmmgr_alloc(n) returned p and the next two calls are
\* shmmgr_free(p) and shmmgr_alloc(n), the second shmmgr_alloc returns p again.
C12_LifoReuse ==
    \A i \in 1 .. (Len(trail) - 2) :
        (/\ trail[i].op = "alloc" /\ trail[i].done /\ trail[i].ret # NULL
         /\ trail[i + 1].op = "free" /\ trail[i + 1].done
         /\ trail[i + 1].ptr = trail[i].ret
         /\ trail[i + 2].op = "alloc" /\ trail[i + 2].done
         /\ trail[i + 2].size = trail[i].size)
            => trail[i + 2].ret = trail[i].ret

\* main() has run some shmmgr_alloc calls that all succeeded and then freed
\* every address they returned
AllocsThenFrees ==
    /\ Len(trail) >= 2
    /\ \A i \in 1 .. Len(trail) : trail[i].done
    /\ \A i \in 1 .. Len(trail) : trail[i].op = "alloc" => trail[i].ret # NULL
    /\ \A i \in 1 .. (Len(trail) - 1) : trail[i].op = "free" => trail[i + 1].op = "free"
    /\ held[Main] = {}

\* C13: on a freshly bootstrapped segment, after successful shmmgr_alloc calls
\* followed by shmmgr_free of every returned address, in any order, every
\* num_active[m] is 0 and every num_free[m] is what the bootstrap left.
C13_FreeAllRestores ==
    (Booted /\ AllocsThenFrees) =>
        /\ \A m \in Classes : num_active[m] = 0
        /\ num_free = Seeded.mem.num_free

\* a chunk of class m at offset o is aligned to its size, lies behind the
\* segment header and ends inside the segment
WellPlaced(o, m) ==
    /\ o % Shl1(m) = 0
    /\ o >= SizeofShmhead
    /\ o + Shl1(m) <= segment_size

\* the chunks linked into the ring of free_list[m]: the nodes of the ring
\* that are no list heads of the segment header
FreeChunks(m) == {c \in Ring(m) : ~IsSentinel(ListOf(c))}

\* C14: every chunk linked into a free list, with the class in its header,
\* and every outstanding allocation, with the class it was allocated with
\* and with the class in its header, starts at a multiple of its size, not
\* inside the segment header, and ends at or before segment_size.
C14_AlignedAndBounded ==
    Booted =>
        /\ \A m \in Classes : \A c \in FreeChunks(m) :
              /\ LoadChunk(Mem, c).mclass >= SHMCLASS_MIN_BITS
              /\ WellPlaced(addr_to_offset(c), LoadChunk(Mem, c).mclass)
        /\ \A p \in Procs : \A h \in held[p] :
              /\ WellPlaced(ChunkLo(h.ptr), h.mclass)
              /\ WellPlaced(ChunkLo(h.ptr), LoadChunk(Mem, ContainerOf(h.ptr)).mclass)

\* a segment whose size is no power of two has been seeded with two chunks,
\* one of them was split and a half of it is allocated
C14_Witness ==
    /\ Booted
    /\ Seeded.mem.num_free[SHMCLASS_MIN_BITS + 1] = 1
    /\ Seeded.mem.num_free[SHMCLASS_MIN_BITS] = 1
    /\ num_free[SHMCLASS_MIN_BITS] = 2
    /\ \E h \in held[Main] : h.mclass = SHMCLASS_MIN_BITS

\* the smallest power of two, from 2^k up, that is strictly larger than n
RECURSIVE NextPow2From(_, _)
NextPow2From(n, k) == IF Shl1(k) > n THEN Shl1(k) ELSE NextPow2From(n, k + 1)

\* the start of the allocatable region as C15 states it
StatedStart ==
    LET p == NextPow2From(SizeofShmhead, 0)
    IN  IF p < SHMCLASS_MIN_SIZE THEN SHMCLASS_MIN_SIZE ELSE p

\* the lowest offset at which a chunk header has been written
FirstCarved == CHOOSE o \in DOMAIN chunks : \A x \in DOMAIN chunks : o <= x

\* C15: shmmgr_init starts to carve chunks at the smallest power of two
\* strictly larger than the size of the segment header, or at
\* SHMCLASS_MIN_SIZE if that power of two is smaller.
C15_StartOffset ==
    (Booted /\ trail = <<>> /\ DOMAIN chunks # {}) => FirstCarved = StatedStart

\* C16: shmmgr_split_chunk called with a class above SHMCLASS_MAX_BITS
\* returns false and leaves the memory as it is; a shmmgr_alloc whose class
\* is SHMCLASS_MAX_BITS, called while free_list[SHMCLASS_MAX_BITS] is empty,
\* therefore unlocks the mutex and returns NULL with nothing changed.
C16_SplitAboveMaxFails ==
    [][(/\ pc[Main] = "idle" /\ Len(trail') = Len(trail) + 1
        /\ trail'[Len(trail')].op = "alloc"
        /\ AllocClass(trail'[Len(trail')].size) = SHMCLASS_MAX_BITS
        /\ shmlist_empty(Mem, FreeListAddr(SHMCLASS_MAX_BITS)))
          => /\ shmmgr_split_chunk(Mem, SHMCLASS_MAX_BITS + 1) = [ok |-> FALSE, mem |-> Mem]
             /\ trail'[Len(trail')].done /\ trail'[Len(trail')].ret = NULL
             /\ pc'[Main] = "idle" /\ lock'.owner = 0
             /\ UNCHANGED <<free_list, num_free, num_active, chunks>>]_vars

\* shmmgr_init has got and attached its segment and gone through the
\* seeding loop
InitRan == init_pc # "start" /\ shmhead \in ShmatAddrs

\* C17: on a segment that leaves fewer than SHMCLASS_MIN_SIZE bytes after the
\* starting offset, a segment smaller than the starting offset included, the
\* seeding loop is not entered: shmmgr_init returns, every free list is
\* empty and every num_free[m] is 0.
C17_ShortSegmentSeedsNothing ==
    (InitRan /\ segment_size < SeedStart + SHMCLASS_MIN_SIZE)
        => /\ init_pc = "returned"
           /\ chunks = <<>>
           /\ \A m \in Classes : shmlist_empty(Mem, FreeListAddr(m)) /\ num_free[m] = 0

\* C18: every buddy header that shmmgr_free reads while coalescing lies
\* wholly inside the segment, at the start of a chunk made by seeding or
\* splitting: its offset is at least the header size and offset_buddy + 2^m
\* is at most segment_size, on segments of any accepted size.
C18_BuddyReadsInSegment ==
    \A i \in DOMAIN trail : \A r \in trail[i].reads :
        /\ r.offset >= SizeofShmhead
        /\ r.offset + Shl1(r.mclass) <= segment_size
        /\ r.offset \in DOMAIN chunks

\* C19: concurrent shmmgr_alloc and shmmgr_free calls act as if executed one
\* at a time; in particular the mclass that shmmgr_free has read from the
\* chunk header before it took the lock is still the class in that header
\* when shmmgr_free acts on the chunk under the lock.
C19_ClassStableUntilLocked ==
    \A p \in Procs :
        pc[p] = "free_locked"
            => LoadChunk(Mem, ContainerOf(frame[p].ptr)).mclass = frame[p].mclass

(* ------------------------------ fairness ------------------------------- *)

\* Every process that can take a step of its call takes it in the end
\* (weak fairness on the steps of one process), and a process that waits
\* in pthread_mutex_lock gets the mutex if it is free again and again
\* (strong fairness on the acquisitions). The body a process runs under the
\* lock is enabled exactly while the process is at alloc_locked or
\* free_locked and always leaves that position, so weak fairness on
\* AllocBody(p) and FreeBody(p) is written as: p is infinitely often not there.
Fairness ==
    \A p \in Procs :
        /\ SF_vars(AllocLock(p)) /\ SF_vars(FreeLock(p))
        /\ []<>(pc[p] # "alloc_locked") /\ []<>(pc[p] # "free_locked")
        /\ WF_vars(AllocUnlock(p)) /\ WF_vars(AllocReturn(p)) /\ WF_vars(FreeUnlock(p))

FairSpec == Spec /\ Fairness

\* C20: under fair scheduling of the processes and of the mutex every
\* shmmgr_alloc and shmmgr_free call returns in the end: no holder keeps
\* the mutex for ever and no caller waits for ever.
C20_EveryCallReturns ==
    \A p \in Procs : (pc[p] # "idle") ~> (pc[p] = "idle")

====
